---- MODULE Spec2Model ----
(***************************************************************************)
(* Model of src/learner.py: the SQLite entity store (init_db, upsert,      *)
(* count), the background learning_loop that polls the connector and       *)
(* upserts what it returns, and the two reporting endpoints                *)
(* learning_status and learning_suggestions.                               *)
(*                                                                         *)
(* Values.  A Python None / SQL NULL / JSON null is NULL == <<>>; any      *)
(* other value v is Some(v) == <<v>>.  A dict is a TLA+ function whose     *)
(* DOMAIN is its key set, so a missing key and a key holding null differ   *)
(* as they do in Python.  A timestamp string (ISO 8601, which orders as    *)
(* the instant it denotes) is represented by its tick number.              *)
(***************************************************************************)
EXTENDS Integers, Sequences, FiniteSets, TLC

VARIABLES
    upstream,   \* what the connector can return: [table -> set of raw records]
    db,         \* committed content of learner.db: [table -> sequence of rows in rowid order]
    txn,        \* upsert's open transaction: the table image after c.execute, before conn.commit
    pc,         \* position of learning_loop
    kind,       \* index in KindOrder of the block learning_loop is in
    page,       \* results of the current response still to be upserted
    results,    \* r.json()["results"] of the block being merged, whole
    clock,      \* wall clock (datetime.utcnow / SQLite 'now'), in ticks
    cycleStart, \* clock value when the current cycle began
    outcome,    \* per table, how its block of the current cycle ended
    response    \* body returned by the reporting request served last, if no loop step followed it

vars == <<upstream, db, txn, pc, kind, page, results, clock, cycleStart, outcome, response>>

----------------------------------------------------------------------------
(* Bounds of the model *)

MaxPage == 2
MaxTicks == 1
MaxNullRows == 2
MaxDeals == 6
MaxRows == 2
MaxFreq == 2
MaxTickets == 6
TicksPerDay == 2

(* Program constants *)

OldTicketDays == 30
HeavyDeals == 5
KbLimit == 5

----------------------------------------------------------------------------
(* Values and dicts *)

NULL == <<>>

Some(v) == <<v>>

EmptyDict == [k \in {} |-> NULL]

\* dict.get(key, default)
Get(d, key, default) == IF key \in DOMAIN d THEN d[key] ELSE default

KindOrder == <<"tickets", "companies", "contacts", "deals">>

Tables == {KindOrder[i] : i \in DOMAIN KindOrder}

PrimaryKey(table) ==
    CASE table = "tickets" -> "ticket_id"
      [] table = "companies" -> "company_id"
      [] table = "contacts" -> "contact_id"
      [] table = "deals" -> "deal_id"

\* DROP TABLE then CREATE TABLE: every table is created anew
init_db_recreate(store) == [t \in Tables |-> <<>>]

\* CREATE TABLE IF NOT EXISTS: a table that exists keeps its rows, a missing one is created empty
init_db(store) == [t \in Tables |-> IF t \in DOMAIN store THEN store[t] ELSE <<>>]

----------------------------------------------------------------------------
(* upsert: INSERT ... ON CONFLICT(pk) DO UPDATE SET k=excluded.k for every k of data *)

\* rowids of the rows that conflict with data on the primary key.  SQLite lets a
\* TEXT PRIMARY KEY of a rowid table hold NULL, and a NULL never conflicts.
Conflicts(rows, data, pk) ==
    {i \in DOMAIN rows : data[pk] # NULL /\ rows[i][pk] = data[pk]}

\* the update clause of the query: the columns set from the excluded row
UpdateCols(data) == DOMAIN data

\* INSERT OR REPLACE in place of ON CONFLICT DO UPDATE: the conflicting row is
\* deleted and the new one inserted
upsert_replace(rows, data, pk) ==
    Append(SelectSeq(rows, LAMBDA r : ~(data[pk] # NULL /\ r[pk] = data[pk])), data)

\* DO UPDATE SET last_seen = excluded.last_seen reaching every row of the
\* table, not only the conflicting one
upsert_stamp_all(rows, data, pk) ==
    IF Conflicts(rows, data, pk) = {}
    THEN Append(rows, data)
    ELSE [i \in DOMAIN rows |->
            IF i \in Conflicts(rows, data, pk)
            THEN [c \in DOMAIN rows[i] |->
                    IF c \in UpdateCols(data) THEN data[c] ELSE rows[i][c]]
            ELSE [rows[i] EXCEPT !.last_seen = data.last_seen]]

\* INSERT OR IGNORE in place of ON CONFLICT DO UPDATE: a row that is there stays as it is
upsert_ignore(rows, data, pk) ==
    IF Conflicts(rows, data, pk) = {}
    THEN Append(rows, data)
    ELSE rows

upsert(rows, data, pk) ==
    IF Conflicts(rows, data, pk) = {}
    THEN Append(rows, data)
    ELSE [i \in DOMAIN rows |->
            IF i \in Conflicts(rows, data, pk)
            THEN [c \in DOMAIN rows[i] |->
                    IF c \in UpdateCols(data) THEN data[c] ELSE rows[i][c]]
            ELSE rows[i]]

\* SELECT COUNT(*) FROM table
count(store, table) == Len(store[table])

----------------------------------------------------------------------------
(* learning_status and learning_suggestions: the queries over the store *)

learning_status(store) ==
    [tickets_indexed |-> count(store, "tickets"),
     companies_indexed |-> count(store, "companies"),
     contacts_indexed |-> count(store, "contacts"),
     deals_indexed |-> count(store, "deals")]

\* the count query with the test for the empty string left out
MissingCountNullOnly(rows, col) ==
    Cardinality({i \in DOMAIN rows : rows[i][col] = NULL})

\* SELECT COUNT(*) FROM table WHERE col IS NULL OR col=''
MissingCount(rows, col) ==
    Cardinality({i \in DOMAIN rows : rows[i][col] = NULL \/ rows[i][col] = Some("")})

\* if (missing := c.fetchone()[0]) > 0: cleanup.append(f"{missing} ...")
Suggest(n, text) == IF n > 0 THEN <<[n |-> n, text |-> text]>> ELSE <<>>

data_cleanup(store) ==
    Suggest(MissingCount(store["companies"], "domain"), "companies are missing domain information.")
    \o Suggest(MissingCount(store["contacts"], "email"), "contacts are missing email addresses.")
    \o Suggest(MissingCount(store["deals"], "stage"), "deals are missing pipeline stage.")

\* the subjects of the model in the order of SQLite's BINARY collation
SubjectOrder == <<"billing issue", "export", "login", "other", "refund", "sync">>

Rank(s) == CHOOSE i \in DOMAIN SubjectOrder : SubjectOrder[i] = s

\* WHERE subject IS NOT NULL AND subject != '' GROUP BY subject
Subjects(rows) ==
    {rows[i].subject[1] : i \in {j \in DOMAIN rows : rows[j].subject \notin {NULL, Some("")}}}

Freq(rows, s) == Cardinality({i \in DOMAIN rows : rows[i].subject = Some(s)})

\* ORDER BY freq, ascending
BeforeAscending(rows, s, t) ==
    \/ Freq(rows, s) < Freq(rows, t)
    \/ Freq(rows, s) = Freq(rows, t) /\ Rank(s) > Rank(t)

\* ORDER BY freq DESC; SQLite 3.40 returns equal frequencies in descending subject order
Before(rows, s, t) ==
    \/ Freq(rows, s) > Freq(rows, t)
    \/ Freq(rows, s) = Freq(rows, t) /\ Rank(s) > Rank(t)

RECURSIVE OrderByFreq(_, _)
OrderByFreq(rows, S) ==
    IF S = {} THEN <<>>
    ELSE LET first == CHOOSE s \in S : \A t \in S \ {s} : Before(rows, s, t)
         IN  <<[subject |-> first, count |-> Freq(rows, first)]>> \o OrderByFreq(rows, S \ {first})

\* LIMIT n
Limit(q, n) == SubSeq(q, 1, IF Len(q) < n THEN Len(q) ELSE n)

kb_candidates(store) == Limit(OrderByFreq(store["tickets"], Subjects(store["tickets"])), KbLimit)

\* SELECT company_id, COUNT(*) FROM deals WHERE company_id IS NOT NULL
\* GROUP BY company_id HAVING COUNT(*) > 5
DealsOf(rows, c) == Cardinality({i \in DOMAIN rows : rows[i].company_id = c})

heavy_companies(rows) ==
    {c \in {rows[i].company_id : i \in DOMAIN rows} \ {NULL} : DealsOf(rows, c) > HeavyDeals}

\* the day an instant falls on: what SQLite's date() keeps of it
Day(t) == t \div TicksPerDay

\* created_at < date('now','-30 days'): a timestamp string is below a date
\* string exactly when it falls on an earlier day; NULL compares to nothing
old_tickets(rows, now) ==
    Cardinality({i \in DOMAIN rows :
        /\ rows[i].created_at # NULL
        /\ Day(rows[i].created_at[1]) < Day(now) - OldTicketDays})

\* SELECT COUNT(*) FROM deals WHERE company_id IS NULL OR company_id=''
orphan_deals(rows) == MissingCount(rows, "company_id")

workflow_candidates(store, now) ==
    (IF heavy_companies(store["deals"]) # {}
     THEN <<[n |-> Cardinality(heavy_companies(store["deals"])),
             text |-> "Create an alert workflow for CSMs when a company exceeds 5 active deals. {n} companies qualify."]>>
     ELSE <<>>)
    \o Suggest(old_tickets(store["tickets"], now), "tickets have been open for >30 days.")
    \o Suggest(orphan_deals(store["deals"]), "deals have no associated company.")

learning_suggestions(store, now) ==
    [data_cleanup |-> data_cleanup(store),
     kb_candidates |-> kb_candidates(store),
     workflow_candidates |-> workflow_candidates(store, now)]

----------------------------------------------------------------------------
(* learning_loop: normalisation of one raw record into the dict passed to upsert *)

\* props = t.get("properties", {}); props.get(...) raises AttributeError when
\* the record carries "properties": null
NormalizeRaises(raw) == Get(raw, "properties", Some(EmptyDict)) = NULL

Props(raw) == Get(raw, "properties", Some(EmptyDict))[1]

\* datetime.utcnow().isoformat(), evaluated when the dict is built
LastSeen(now) == Some(now)

Normalize(table, raw, now) ==
    CASE table = "tickets" ->
            [ticket_id |-> Get(raw, "id", NULL),
             subject |-> Get(Props(raw), "subject", NULL),
             content |-> Get(Props(raw), "content", NULL),
             created_at |-> Get(Props(raw), "createdate", NULL),
             last_seen |-> LastSeen(now)]
      [] table = "companies" ->
            [company_id |-> Get(raw, "id", NULL),
             name |-> Get(Props(raw), "name", NULL),
             domain |-> Get(Props(raw), "domain", NULL),
             last_seen |-> LastSeen(now)]
      [] table = "contacts" ->
            [contact_id |-> Get(raw, "id", NULL),
             email |-> Get(Props(raw), "email", NULL),
             firstname |-> Get(Props(raw), "firstname", NULL),
             lastname |-> Get(Props(raw), "lastname", NULL),
             company_id |-> Get(Props(raw), "company", NULL),
             last_seen |-> LastSeen(now)]
      [] table = "deals" ->
            [deal_id |-> Get(raw, "id", NULL),
             dealname |-> Get(Props(raw), "dealname", NULL),
             amount |-> Get(Props(raw), "amount", NULL),
             stage |-> Get(Props(raw), "dealstage", NULL),
             company_id |-> Get(Props(raw), "associatedcompanyid", NULL),
             last_seen |-> LastSeen(now)]

----------------------------------------------------------------------------
(* The connector's data: the raw records a search call can return *)

Raw(id, props) == [id |-> Some(id), properties |-> Some(props)]

\* the instant the model starts at: half a day into day OldTicketDays
StartClock == OldTicketDays * TicksPerDay + 1

MaxClock == StartClock + MaxTicks

TicketA == Raw("1", [subject |-> Some("billing issue"), content |-> Some("a"), createdate |-> Some(0)])
TicketB == Raw("1", [subject |-> Some("other"), content |-> Some("b")])
TicketC == Raw("2", [subject |-> Some("billing issue"), content |-> Some("a"), createdate |-> Some(StartClock)])

CompanyA == Raw("1", [name |-> Some("Acme"), domain |-> Some("a.com")])
CompanyB == Raw("1", [name |-> Some("Acme"), domain |-> Some("")])
CompanyNoId == [properties |-> Some([name |-> Some("Anon")])]

ContactA == Raw("1", [email |-> Some("x@a.com"), firstname |-> Some("X"), lastname |-> Some("Y"), company |-> Some("1")])
ContactBare == [id |-> Some("1")]

DealA == Raw("1", [dealname |-> Some("d"), amount |-> Some("10"), dealstage |-> Some("won"), associatedcompanyid |-> Some("1")])
DealNullProps == [id |-> Some("1"), properties |-> NULL]

\* r.json() of a search call with nothing to return: "results": []
Nothing == {}

\* the data sets the model runs against, one per behaviour
ScenarioAll ==
    [tickets |-> {TicketA}, companies |-> {CompanyA}, contacts |-> {ContactA}, deals |-> {DealA}]

ScenarioTickets ==
    [tickets |-> {TicketA, TicketB, TicketC}, companies |-> Nothing, contacts |-> Nothing, deals |-> Nothing]

ScenarioCompanies ==
    [tickets |-> Nothing, companies |-> {CompanyA, CompanyB, CompanyNoId}, contacts |-> Nothing, deals |-> Nothing]

ScenarioContactsDeals ==
    [tickets |-> Nothing, companies |-> Nothing, contacts |-> {ContactA, ContactBare}, deals |-> {DealA, DealNullProps}]

Scenarios == {ScenarioAll, ScenarioTickets, ScenarioCompanies, ScenarioContactsDeals}

RECURSIVE SeqsUpTo(_, _)
SeqsUpTo(S, n) ==
    IF n = 0 THEN {<<>>}
    ELSE LET shorter == SeqsUpTo(S, n - 1)
         IN  shorter \cup {Append(q, x) : q \in shorter, x \in S}

\* r.json().get("results", []): a page of at most MaxPage records ("limit": 100 in the code)
Pages(table) == SeqsUpTo(upstream[table], MaxPage)

NullKeyCount(rows, pk) == Cardinality({i \in DOMAIN rows : rows[i][pk] = NULL})

NoIdCount(records) == Cardinality({i \in DOMAIN records : Get(records[i], "id", NULL) = NULL})

----------------------------------------------------------------------------
(* learning_loop *)

Table == KindOrder[kind]

NoResponse == NULL

Init ==
    /\ upstream \in Scenarios
    /\ db = init_db(EmptyDict)
    /\ txn = <<>>
    /\ pc = "start"
    /\ kind = 1
    /\ page = <<>>
    /\ results = <<>>
    /\ clock = StartClock
    /\ cycleStart = StartClock
    /\ outcome = [t \in Tables |-> "pending"]
    /\ response = NoResponse

\* while True: try: print(...); async with httpx.AsyncClient(...) as client:
CycleStart ==
    /\ pc = "start"
    /\ pc' = "fetch"
    /\ kind' = 1
    /\ cycleStart' = clock
    /\ outcome' = [t \in Tables |-> "pending"]
    /\ response' = NoResponse
    /\ UNCHANGED <<upstream, db, txn, page, results, clock>>

\* the end of one table's block: on to the next search call, or out of the
\* try block to the sleep after the last one
NextBlock(how) ==
    /\ outcome' = [outcome EXCEPT ![Table] = how]
    /\ IF kind < Len(KindOrder)
       THEN pc' = "fetch" /\ kind' = kind + 1
       ELSE pc' = "sleep" /\ kind' = kind

\* r = await client.post(...); r.status_code == 200; r.json().get("results", [])
FetchOk ==
    /\ pc = "fetch"
    /\ \E body \in Pages(Table) :
          /\ NullKeyCount(db[Table], PrimaryKey(Table)) + NoIdCount(body) <= MaxNullRows
          /\ page' = body
          /\ results' = body
    /\ pc' = "merge"
    /\ response' = NoResponse
    /\ UNCHANGED <<upstream, db, txn, kind, clock, cycleStart, outcome>>

\* the body of a non-200 response is merged all the same
FetchStatusMerges ==
    /\ pc = "fetch"
    /\ \E body \in Pages(Table) :
        /\ NullKeyCount(db[Table], PrimaryKey(Table)) + NoIdCount(body) <= MaxNullRows
        /\ page' = body
        /\ results' = body
    /\ pc' = "merge"
    /\ outcome' = [outcome EXCEPT ![Table] = "status"]
    /\ response' = NoResponse
    /\ UNCHANGED <<upstream, db, txn, kind, clock, cycleStart>>

\* the search call is issued again when the status is not 200
FetchStatusRetry ==
    /\ pc = "fetch"
    /\ outcome' = [outcome EXCEPT ![Table] = "status"]
    /\ response' = NoResponse
    /\ UNCHANGED <<upstream, db, txn, pc, kind, page, results, clock, cycleStart>>

\* r.status_code != 200: the if is skipped
FetchStatus ==
    /\ pc = "fetch"
    /\ NextBlock("status")
    /\ response' = NoResponse
    /\ UNCHANGED <<upstream, db, txn, page, results, clock, cycleStart>>

\* the exception undoes what the cycle has written to the table of its block
RaiseRollback(how) ==
    /\ pc' = "except"
    /\ outcome' = [outcome EXCEPT ![Table] = how]
    /\ db' = [db EXCEPT ![Table] = SelectSeq(db[Table], LAMBDA r : r.last_seen[1] < cycleStart)]
    /\ txn' = <<>>
    /\ page' = <<>>
    /\ results' = <<>>
    /\ response' = NoResponse
    /\ UNCHANGED <<upstream, kind, clock, cycleStart>>

\* an exception leaves the try block: the response and an open transaction are dropped
Raise(how) ==
    /\ pc' = "except"
    /\ outcome' = [outcome EXCEPT ![Table] = how]
    /\ txn' = <<>>
    /\ page' = <<>>
    /\ results' = <<>>
    /\ response' = NoResponse
    /\ UNCHANGED <<upstream, db, kind, clock, cycleStart>>

\* client.post raises (timeout, connection error) or r.json() raises (malformed body)
FetchRaise ==
    /\ pc = "fetch"
    /\ Raise("raised")

\* the update written column by column in autocommit mode: the key and the
\* first column reach the store before the rest
UpsertExecDirty ==
    /\ pc = "merge"
    /\ page # <<>>
    /\ ~NormalizeRaises(Head(page))
    /\ LET data == Normalize(Table, Head(page), clock)
           pk == PrimaryKey(Table)
           first == {pk, "subject", "name", "email", "dealname"}
       IN  /\ txn' = upsert(db[Table], data, pk)
           /\ db' = [db EXCEPT ![Table] =
                        upsert(db[Table], [c \in DOMAIN data \cap first |-> data[c]], pk)]
    /\ pc' = "commit"
    /\ response' = NoResponse
    /\ UNCHANGED <<upstream, kind, page, results, clock, cycleStart, outcome>>

\* upsert(...) up to c.execute(query, ...): the statement runs in the connection's transaction
UpsertExec ==
    /\ pc = "merge"
    /\ page # <<>>
    /\ ~NormalizeRaises(Head(page))
    /\ txn' = upsert(db[Table], Normalize(Table, Head(page), clock), PrimaryKey(Table))
    /\ pc' = "commit"
    /\ response' = NoResponse
    /\ UNCHANGED <<upstream, db, kind, page, results, clock, cycleStart, outcome>>

\* conn.commit(); conn.close(); the for loop moves to the next record
UpsertCommit ==
    /\ pc = "commit"
    /\ db' = [db EXCEPT ![Table] = txn]
    /\ txn' = <<>>
    /\ page' = Tail(page)
    /\ pc' = "merge"
    /\ response' = NoResponse
    /\ UNCHANGED <<upstream, kind, results, clock, cycleStart, outcome>>

\* props.get raises on a record whose "properties" is null
NormalizeRaise ==
    /\ pc = "merge"
    /\ page # <<>>
    /\ NormalizeRaises(Head(page))
    /\ Raise("aborted")

\* sqlite3 raises in connect, execute or commit (file locked or unreachable)
StorageRaise ==
    /\ \/ pc = "merge" /\ page # <<>>
       \/ pc = "commit"
    /\ Raise("aborted")

\* the for loop over the results is exhausted
MergeDone ==
    /\ pc = "merge"
    /\ page = <<>>
    /\ NextBlock("merged")
    /\ results' = <<>>
    /\ response' = NoResponse
    /\ UNCHANGED <<upstream, db, txn, page, clock, cycleStart>>

\* the exception is not caught: the task ends
ExceptPropagates ==
    /\ pc = "except"
    /\ pc' = "crashed"
    /\ response' = NoResponse
    /\ UNCHANGED <<upstream, db, txn, kind, page, results, clock, cycleStart, outcome>>

\* except Exception as e: print(...)
Except ==
    /\ pc = "except"
    /\ pc' = "sleep"
    /\ response' = NoResponse
    /\ UNCHANGED <<upstream, db, txn, kind, page, results, clock, cycleStart, outcome>>

\* await asyncio.sleep(POLL_INTERVAL) returns; back to the top of while True
Sleep ==
    /\ pc = "sleep"
    /\ pc' = "start"
    /\ response' = NoResponse
    /\ UNCHANGED <<upstream, db, txn, kind, page, results, clock, cycleStart, outcome>>

\* time passes (during an await, a blocking call or between two requests)
Tick ==
    /\ clock < MaxClock
    /\ clock' = clock + 1
    /\ UNCHANGED <<upstream, db, txn, pc, kind, page, results, cycleStart, outcome, response>>

\* GET /learning/status, served on a worker thread at any point of the loop
LearningStatus ==
    /\ response' = [op |-> "status", day |-> Day(clock), body |-> learning_status(db)]
    /\ UNCHANGED <<upstream, db, txn, pc, kind, page, results, clock, cycleStart, outcome>>

\* the request wakes the loop to refresh the store before answering
LearningSuggestionsSync ==
    /\ response' = [op |-> "suggestions", day |-> Day(clock), body |-> learning_suggestions(db, clock)]
    /\ pc' = IF pc = "sleep" THEN "start" ELSE pc
    /\ UNCHANGED <<upstream, db, txn, kind, page, results, clock, cycleStart, outcome>>

\* GET /learning/suggestions, served on a worker thread at any point of the loop
LearningSuggestions ==
    /\ response' = [op |-> "suggestions", day |-> Day(clock), body |-> learning_suggestions(db, clock)]
    /\ UNCHANGED <<upstream, db, txn, pc, kind, page, results, clock, cycleStart, outcome>>

learning_loop ==
    \/ CycleStart
    \/ FetchOk
    \/ FetchStatus
    \/ FetchRaise
    \/ UpsertExec
    \/ UpsertCommit
    \/ NormalizeRaise
    \/ StorageRaise
    \/ MergeDone
    \/ Except
    \/ Sleep

Next ==
    \/ learning_loop
    \/ Tick
    \/ LearningStatus
    \/ LearningSuggestions

Spec == Init /\ [][Next]_vars

----------------------------------------------------------------------------
(* The reporting queries on their own: learning_status and learning_suggestions
   applied to stores drawn from bounded sets of rows *)

\* the values a text column can hold: NULL, the empty string, a text
ColumnValues(text) == {NULL, Some(""), Some(text)}

RowIds(n) == [i \in 1..n |-> Some(ToString(i))]

CompanyRows(domains) ==
    [i \in DOMAIN domains |->
        [company_id |-> RowIds(Len(domains))[i], name |-> Some("n"),
         domain |-> domains[i], last_seen |-> Some(StartClock)]]

ContactRows(emails) ==
    [i \in DOMAIN emails |->
        [contact_id |-> RowIds(Len(emails))[i], email |-> emails[i], firstname |-> Some("f"),
         lastname |-> Some("l"), company_id |-> Some("1"), last_seen |-> Some(StartClock)]]

DealRows(stages, companies) ==
    [i \in DOMAIN stages |->
        [deal_id |-> RowIds(Len(stages))[i], dealname |-> Some("d"), amount |-> Some("10"),
         stage |-> stages[i], company_id |-> companies[i], last_seen |-> Some(StartClock)]]

\* n copies of x
Repeat(x, n) == [i \in 1..n |-> x]

\* the company_id values of the deals of the threshold stores
DealCompanies == <<NULL, Some(""), Some("1"), Some("2")>>

RECURSIVE CompaniesByCount(_, _)
CompaniesByCount(counts, k) ==
    IF k = 0 THEN <<>>
    ELSE CompaniesByCount(counts, k - 1) \o Repeat(DealCompanies[k], counts[k])

TicketRows(subjects) ==
    [i \in DOMAIN subjects |->
        [ticket_id |-> RowIds(Len(subjects))[i], subject |-> subjects[i], content |-> Some("c"),
         created_at |-> NULL, last_seen |-> Some(StartClock)]]

\* the subject values of the tickets of the ranking stores
TicketSubjects == [i \in DOMAIN SubjectOrder |-> Some(SubjectOrder[i])]

RECURSIVE SubjectsByCount(_, _)
SubjectsByCount(counts, k) ==
    IF k = 0 THEN <<>>
    ELSE SubjectsByCount(counts, k - 1) \o Repeat(TicketSubjects[k], counts[k])

\* stores for the subject ranking: for each subject, 0..MaxFreq tickets holding it
RankingStores ==
    {[tickets |-> TicketRows(SubjectsByCount(counts, Len(TicketSubjects))),
      companies |-> <<>>, contacts |-> <<>>, deals |-> <<>>] :
        counts \in [DOMAIN TicketSubjects -> 0..MaxFreq]}

\* stores with up to MaxTickets tickets on each of two subjects, alone or next
\* to a ticket with a NULL subject and one with an empty subject
TwoSubjectStores ==
    {[tickets |-> TicketRows(Repeat(NULL, b) \o Repeat(Some(""), b)
                             \o Repeat(Some("billing issue"), n) \o Repeat(Some("other"), m)),
      companies |-> <<>>, contacts |-> <<>>, deals |-> <<>>] :
        n \in 0..MaxTickets, m \in 0..MaxTickets, b \in 0..1}

\* stores for the data-quality counts: up to MaxRows rows per table, the
\* checked column of each row drawn from ColumnValues
QualityStores ==
    {[tickets |-> <<>>, companies |-> CompanyRows(d), contacts |-> ContactRows(e),
      deals |-> DealRows(g, Repeat(Some("1"), Len(g)))] :
        d \in SeqsUpTo(ColumnValues("a.com"), MaxRows),
        e \in SeqsUpTo(ColumnValues("x@a.com"), MaxRows),
        g \in SeqsUpTo(ColumnValues("won"), MaxRows)}

\* stores for the deal threshold: for each value of DealCompanies, 0..MaxDeals deals holding it
ThresholdStores ==
    {[tickets |-> <<>>, companies |-> <<>>, contacts |-> <<>>,
      deals |-> DealRows(Repeat(Some("won"), Len(CompaniesByCount(counts, Len(DealCompanies)))),
                         CompaniesByCount(counts, Len(DealCompanies)))] :
        counts \in [DOMAIN DealCompanies -> 0..MaxDeals]}

ReportInit ==
    /\ upstream = [t \in Tables |-> Nothing]
    /\ \/ db \in QualityStores
       \/ db \in ThresholdStores
       \/ db \in RankingStores
       \/ db \in TwoSubjectStores
    /\ txn = <<>>
    /\ pc = "sleep"
    /\ kind = 1
    /\ page = <<>>
    /\ results = <<>>
    /\ clock = StartClock
    /\ cycleStart = StartClock
    /\ outcome = [t \in Tables |-> "pending"]
    /\ response = NoResponse

ReportNext ==
    \/ LearningStatus
    \/ LearningSuggestions
    \/ Tick

SpecReport == ReportInit /\ [][ReportNext]_vars

\* learning_loop with the scheduling asyncio gives it: the task is resumed
\* whenever it can run (a search call returns or raises within its timeout,
\* the sleep ends)
LiveInit == Init /\ upstream = ScenarioContactsDeals

LiveSpec == LiveInit /\ [][Next]_vars /\ WF_vars(learning_loop)

\* The process is stopped at any point and started again on the same
\* learner.db: startup_event runs init_db and creates the loop task anew.  A
\* transaction that was not committed is lost.
Restart ==
    /\ db' = init_db(db)
    /\ txn' = <<>>
    /\ pc' = "start"
    /\ kind' = 1
    /\ page' = <<>>
    /\ results' = <<>>
    /\ outcome' = [t \in Tables |-> "pending"]
    /\ response' = NoResponse
    /\ UNCHANGED <<upstream, clock, cycleStart>>

RestartInit == Init /\ upstream = ScenarioContactsDeals

RestartNext ==
    \/ Next
    \/ Restart

SpecRestart == RestartInit /\ [][RestartNext]_vars

----------------------------------------------------------------------------
(* Claims *)

Failed(t) == outcome[t] \in {"status", "raised"}

\* C1: per-kind failure isolation.  At the end of a cycle whose only failures
\* are upstream failures of search calls, no kind that has records to return
\* has been left out: each was fetched, and merged if its fetch succeeded.
C1_FailureIsolation ==
    (/\ pc = "sleep"
     /\ \E t \in Tables : Failed(t)
     /\ \A t \in Tables : outcome[t] # "aborted")
    => \A t \in Tables : upstream[t] # {} => outcome[t] \in {"merged", "status", "raised"}

\* C2: the loop never stops because of a failure.  After a cycle that was cut
\* short (pc = "except") or that ran to its end (pc = "sleep"), a new cycle
\* begins with the first search call.
C2_LoopNeverStops ==
    (pc \in {"except", "sleep"}) ~> (pc = "fetch" /\ kind = 1)

\* a cycle was cut short by an exception and the loop is suspended in its sleep
C2_Witness ==
    /\ pc = "sleep"
    /\ \E t \in Tables : outcome[t] \in {"raised", "aborted"}

\* C3: primary keys are unique.  No table holds two rows with the same key.
C3_PrimaryKeyUnique ==
    \A t \in Tables : \A i, j \in DOMAIN db[t] :
        i # j => db[t][i][PrimaryKey(t)] # db[t][j][PrimaryKey(t)]

\* C4: create-date preservation.  Once a ticket row has a created_at, no step changes it.
C4_CreatedAtPreserved ==
    [][\A i \in DOMAIN db["tickets"] :
          db["tickets"][i].created_at # NULL
          => db'["tickets"][i].created_at = db["tickets"][i].created_at]_vars

\* the rowids of table t that a step writes: rows it adds and rows it changes
Written(t) == {i \in DOMAIN db'[t] : i \notin DOMAIN db[t] \/ db'[t][i] # db[t][i]}

\* C5: freshness stamping.  Every row written in a cycle gets last_seen equal
\* to the start time of that cycle.
C5_LastSeenIsCycleStart ==
    [][\A t \in Tables : \A i \in Written(t) : db'[t][i].last_seen = Some(cycleStart)]_vars

\* C6: no deletion, no touch of unobserved records.  No step shrinks a table,
\* and a row changes only in the step that commits the upsert of a returned
\* record carrying that row's key.
C6_NoDeleteNoTouch ==
    [][\A t \in Tables :
          /\ Len(db'[t]) >= Len(db[t])
          /\ \A i \in DOMAIN db[t] :
                db'[t][i] # db[t][i]
                => /\ pc = "commit"
                   /\ t = Table
                   /\ Get(Head(page), "id", NULL) # NULL
                   /\ db[t][i][PrimaryKey(t)] = Get(Head(page), "id", NULL)]_vars

\* a ticket seen in an earlier cycle only stays, with its older last_seen, next
\* to one the current cycle has written again
C6_Witness ==
    /\ Len(db["tickets"]) = 2
    /\ db["tickets"][1].last_seen # db["tickets"][2].last_seen
    /\ outcome["tickets"] = "merged"

\* C7: per-record atomicity.  Whatever step changes a row of the committed
\* store, which is what a request reads, takes the row from its old value to
\* the complete dict built from the record being upserted: every column of
\* the new row comes from that one upsert.
C7_AtomicUpsert ==
    [][\A t \in Tables : \A i \in Written(t) :
          \E now \in cycleStart..clock : db'[t][i] = Normalize(t, Head(page), now)]_vars

\* a status request is served while an upsert has executed but not committed,
\* and reports the store without it
C7_Witness ==
    /\ pc = "commit"
    /\ txn # db[Table]
    /\ response # NoResponse
    /\ response.op = "status"
    /\ response.body = learning_status(db)

\* what the request answered by response would return if it were served now
AnswerNow ==
    IF response.op = "status" THEN learning_status(db) ELSE learning_suggestions(db, clock)

Entries(list, text) == {i \in DOMAIN list : list[i].text = text}

AlertText ==
    "Create an alert workflow for CSMs when a company exceeds 5 active deals. {n} companies qualify."

\* the companies (a deal with no company, NULL or '', names none) with more than 5 deals
Qualifying(rows) ==
    {c \in {rows[i].company_id : i \in DOMAIN rows} \ {NULL, Some("")} :
        Cardinality({i \in DOMAIN rows : rows[i].company_id = c}) >= HeavyDeals + 1}

\* C9: workflow threshold.  The suggestions carry the '>5 deals' candidate
\* exactly when some company has more than 5 deal rows, with the number of
\* such companies; deals with no company count as no company.
C9_WorkflowThreshold ==
    (response # NoResponse /\ response.op = "suggestions")
    => LET alerts == Entries(response.body.workflow_candidates, AlertText)
           q == Qualifying(db["deals"])
       IN  /\ q = {} => alerts = {}
           /\ q # {} => /\ Cardinality(alerts) = 1
                        /\ \A i \in alerts : response.body.workflow_candidates[i].n = Cardinality(q)

\* the rows of a table whose column holds a non-empty text
Filled(rows, col) == {i \in DOMAIN rows : rows[i][col] # NULL /\ rows[i][col] # Some("")}

CleanupChecks ==
    { <<"companies", "domain", "companies are missing domain information.">>,
      <<"contacts", "email", "contacts are missing email addresses.">>,
      <<"deals", "stage", "deals are missing pipeline stage.">> }

\* C10: data-quality gaps.  data_cleanup holds one entry, with the exact
\* count, for each of the three counts that is not zero, and nothing else.
C10_DataCleanup ==
    (response # NoResponse /\ response.op = "suggestions")
    => LET list == response.body.data_cleanup
           Missing(k) == Len(db[k[1]]) - Cardinality(Filled(db[k[1]], k[2]))
       IN  /\ \A k \in CleanupChecks :
                /\ Missing(k) = 0 => Entries(list, k[3]) = {}
                /\ Missing(k) > 0 => /\ Cardinality(Entries(list, k[3])) = 1
                                     /\ \A i \in Entries(list, k[3]) : list[i].n = Missing(k)
           /\ Len(list) = Cardinality({k \in CleanupChecks : Missing(k) > 0})

\* companies with domains ['', 'a.com']: exactly 1 company is reported as missing its domain
C10_Witness ==
    /\ Len(db["companies"]) = 2
    /\ db["companies"][1].domain = Some("")
    /\ db["companies"][2].domain = Some("a.com")
    /\ response # NoResponse
    /\ response.op = "suggestions"
    /\ response.body.data_cleanup = <<[n |-> 1, text |-> "companies are missing domain information."]>>

\* the tickets that hold subject s
WithSubject(s) == {i \in DOMAIN db["tickets"] : db["tickets"][i].subject = Some(s)}

\* the non-empty subjects that tickets hold
StoredSubjects ==
    {db["tickets"][i].subject[1] :
        i \in {j \in DOMAIN db["tickets"] : db["tickets"][j].subject # NULL}} \ {""}

\* C11: knowledge-base candidates.  kb_candidates lists at most 5 distinct
\* subjects, each a non-empty subject some ticket holds, with its exact row
\* count, in non-increasing count order, and no subject left out has a
\* strictly higher count than a listed one.
C11_KbCandidates ==
    (response # NoResponse /\ response.op = "suggestions")
    => LET kb == response.body.kb_candidates
           listed == {kb[i].subject : i \in DOMAIN kb}
       IN  /\ Len(kb) <= KbLimit
           /\ \A i, j \in DOMAIN kb : i # j => kb[i].subject # kb[j].subject
           /\ \A i \in DOMAIN kb :
                /\ kb[i].subject \in StoredSubjects
                /\ kb[i].count = Cardinality(WithSubject(kb[i].subject))
           /\ \A i, j \in DOMAIN kb : i < j => kb[i].count >= kb[j].count
           /\ \A s \in StoredSubjects \ listed : \A i \in DOMAIN kb :
                Cardinality(WithSubject(s)) <= kb[i].count

\* 6 tickets on "billing issue" and 1 on "other": "billing issue" with count 6 comes first
C11_Witness ==
    /\ Cardinality(WithSubject("billing issue")) = 6
    /\ Cardinality(WithSubject("other")) = 1
    /\ response # NoResponse
    /\ response.op = "suggestions"
    /\ response.body.kb_candidates =
         <<[subject |-> "billing issue", count |-> 6], [subject |-> "other", count |-> 1]>>

\* more subjects than the limit: the list is cut to 5 and a subject is left out
C11_WitnessLimit ==
    /\ Cardinality(StoredSubjects) > KbLimit
    /\ response # NoResponse
    /\ response.op = "suggestions"
    /\ Len(response.body.kb_candidates) = KbLimit

\* the state a start of the process leaves: the loop at its top, no block done
Started == pc = "start" /\ \A t \in Tables : outcome[t] = "pending"

\* C12: schema creation is idempotent.  A start of the process on a store
\* that has the four tables leaves every row of every table as it was, and
\* running init_db once more changes nothing.
C12_InitDbIdempotent ==
    [][Started' => (db' = db /\ init_db(db') = db')]_vars

\* the process has been started again on a store that holds rows
C12_Witness ==
    /\ Started
    /\ db["contacts"] # <<>>
    /\ db["deals"] # <<>>

\* the blocks before, and from, the block the loop is in
Earlier == {KindOrder[j] : j \in 1..(kind - 1)}

Later == {KindOrder[j] : j \in kind..Len(KindOrder)}

\* C13: fetch protocol of a cycle.  A search call is issued for a kind only
\* when the kinds before it in the order tickets, companies, contacts, deals
\* have had theirs and ended without an exception, and when neither it nor
\* any kind after it has had one in this cycle (so at most one per kind, none
\* re-issued after a failure); a page holds at most the fixed page size; the
\* record of the fetches starts anew only when a cycle starts, and a cycle
\* starts only after the sleep.
C13_FetchProtocol ==
    /\ [](pc = "fetch" => /\ \A t \in Earlier : outcome[t] \in {"merged", "status"}
                          /\ \A t \in Later : outcome[t] = "pending")
    /\ [](Len(page) <= MaxPage)
    /\ [][(\E t \in Tables : outcome[t] # "pending" /\ outcome'[t] = "pending")
            => (pc = "start" /\ pc' = "fetch" /\ kind' = 1)]_vars
    /\ [][(pc # "start" /\ pc' = "start") => pc = "sleep"]_vars

\* the tickets call failed with a status and was not issued again: the loop
\* is at the deals call, the last in the order
C13_Witness ==
    /\ pc = "fetch"
    /\ kind = Len(KindOrder)
    /\ outcome["tickets"] = "status"
    /\ outcome["companies"] = "merged"

\* C14: a search call for a kind that answers with a status other than 200
\* causes no upsert for that kind in the cycle.  A table changes only by the
\* commit of an upsert of its own block, and only while its call of the cycle
\* has not been settled; the block of a kind that got a non-200 status is
\* never in its merge; no step changes a row of such a table; and the step
\* that takes the non-200 status goes straight on to the call for the next
\* kind (to the sleep after the last kind).
C14_StatusSkipsKind ==
    /\ [](pc \in {"merge", "commit"} => outcome[Table] = "pending")
    /\ [][\A t \in Tables :
            db'[t] # db[t] => /\ pc = "commit"
                              /\ Table = t
                              /\ outcome[t] = "pending"
                              /\ outcome'[t] = "pending"]_vars
    /\ [][\A t \in Tables :
            (outcome[t] = "status" \/ outcome'[t] = "status") => db'[t] = db[t]]_vars
    /\ [][\A t \in Tables :
            (outcome[t] = "pending" /\ outcome'[t] = "status")
                => /\ pc = "fetch"
                   /\ Table = t
                   /\ IF kind < Len(KindOrder)
                      THEN pc' = "fetch" /\ kind' = kind + 1
                      ELSE pc' = "sleep"]_vars

\* the cycle is over: the companies call got a non-200 status, the company
\* stored by an earlier cycle still carries that cycle's last_seen, and the
\* contacts after it were fetched and merged
C14_Witness ==
    /\ pc = "sleep"
    /\ outcome["companies"] = "status"
    /\ outcome["contacts"] = "merged"
    /\ db["companies"] # <<>>
    /\ \A i \in DOMAIN db["companies"] : db["companies"][i].last_seen[1] < cycleStart

\* t.get("id") of a raw record
Id(raw) == Get(raw, "id", NULL)

\* the record at position i is the last of the page with its identifier
LastOccurrence(i) ==
    Id(results[i]) # NULL =>
        ~\E j \in (i + 1)..Len(results) : Id(results[j]) = Id(results[i])

\* the row holds the record: its key is the record's identifier and every
\* attribute is the fetched property it is taken from
Holds(row, table, raw) ==
    /\ ~NormalizeRaises(raw)
    /\ \A c \in DOMAIN row \ {"last_seen"} : row[c] = Normalize(table, raw, clock)[c]

PagePresent(rows, table) ==
    \A i \in DOMAIN results :
        LastOccurrence(i) => \E k \in DOMAIN rows : Holds(rows[k], table, results[i])

C16_LastSeenMonotone ==
    [][\A t \in Tables : \A i \in DOMAIN db[t] :
          /\ i \in DOMAIN db'[t]
          /\ db'[t][i].last_seen[1] >= db[t][i].last_seen[1]
          /\ db'[t][i].last_seen # db[t][i].last_seen
                => /\ pc = "commit"
                   /\ t = Table
                   /\ \E j \in DOMAIN results :
                         /\ Id(results[j]) # NULL
                         /\ Id(results[j]) = db[t][i][PrimaryKey(t)]]_vars

\* two tickets stored by one cycle; a later cycle fetched the first only,
\* whose last_seen moved on while the second kept its own
C16_Witness ==
    /\ Len(db["tickets"]) = 2
    /\ db["tickets"][1].ticket_id = Some("1")
    /\ db["tickets"][2].ticket_id = Some("2")
    /\ db["tickets"][1].last_seen[1] > db["tickets"][2].last_seen[1]
    /\ db["tickets"][2].last_seen[1] = StartClock

\* C17: normalisation never fails on missing data.  Whatever record of a
\* returned page is next to be merged, with properties missing from its
\* property map or with no property map, building its dict does not raise and
\* its upsert can take place.
C17_NormalizationNeverFails ==
    (pc = "merge" /\ page # <<>>)
        => (~NormalizeRaises(Head(page)) /\ ENABLED UpsertExec)

\* the number of records of the page whose upsert is committed
Done == Len(results) - Len(page)

\* every record of the page upserted so far is in the table, the last
\* occurrence so far of an identifier winning
PrefixPresent ==
    \A i \in 1..Done :
        (Id(results[i]) # NULL => ~\E j \in (i + 1)..Done : Id(results[j]) = Id(results[i]))
            => \E k \in DOMAIN db[Table] : Holds(db[Table][k], Table, results[i])

\* C18: no rollback.  While a page is merged the store holds every upsert
\* made so far; the step by which an error aborts the cycle, and every step
\* from there to the start of the next cycle, leaves every table exactly as it
\* was, so what the cycle has upserted stays and nothing of the records and
\* kinds after the failure point is added.
C18_NoRollback ==
    /\ [](pc \in {"merge", "commit"} => PrefixPresent)
    /\ [][pc' = "except" => db' = db]_vars
    /\ [][(pc \in {"except", "sleep"}) => db' = db]_vars

\* the cycle was aborted in the deals block after one deal had been upserted:
\* that deal and the contacts merged before it are in the store
C18_Witness ==
    /\ pc = "sleep"
    /\ outcome["contacts"] = "merged"
    /\ outcome["deals"] = "aborted"
    /\ db["contacts"] # <<>>
    /\ Len(db["deals"]) = 1
    /\ db["deals"][1].last_seen[1] >= cycleStart
    /\ db["deals"][1].dealname # NULL

\* C19: every stored row has a present key: a record returned without an
\* identifier produces no row.
C19_KeyPresent ==
    \A t \in Tables : \A i \in DOMAIN db[t] : db[t][i][PrimaryKey(t)] # NULL

====
